---- MODULE Spec2Model ----
(***************************************************************************)
(* Overheat analysis (src/src/analysis/game_analyzer.py): reconstruction   *)
(* of the team differential at the monitored player's death, detection of  *)
(* the death frame, and classification of later frames against the trade   *)
(* window; and the monitor (src/src/main.py): the command loop of main(),  *)
(* toggle_loop() and the worker threads running loop().                    *)
(*                                                                         *)
(* A frame is modelled by what the HUD reader (hud_detection.py) extracts  *)
(* from its pixels: the number of agent icons found per team, the kill     *)
(* feed lines, and the "KILLED BY" signal.  Player names are sequences of  *)
(* ASCII codes so that str.lower() is computed, not assumed.               *)
(***************************************************************************)
EXTENDS Integers, Sequences, FiniteSets

VARIABLES
    op,                 \* the operation applied last
    now,                \* time.time() in milliseconds
    prev_frame,         \* Option(frame)
    cur_frame,          \* Option(frame)
    target_player,      \* Option(name): target of the last reconstruction
    true_team_death,    \* Option(int): value team_diff_at_death returned
    death_frame_state,  \* Option(FrameState): the death record
    first_frame_state,  \* Option(FrameState): record of an earlier call on the same pair
    cur_frame_state,    \* Option(FrameState): the state classified last
    anal_res,           \* Option(outcome of check_overheat)
    error,              \* Option(exception): what the operation applied last raised
    running,            \* main.py: the global flag the worker loop tests
    player_name,        \* main.py: the global name read at startup ("" before)
    main_pc,            \* main.py: where main() stands
    thread              \* main.py: the worker threads started by toggle_loop

loopvars == <<running, player_name, main_pc, thread>>

vars == <<op, now, prev_frame, cur_frame, target_player, true_team_death,
          death_frame_state, first_frame_state, cur_frame_state, anal_res,
          error, running, player_name, main_pc, thread>>

-----------------------------------------------------------------------------
(* Bounds *)

MaxFeed == 3
MaxDead == 2
MaxMs == 1
MaxSec == 4
MaxThreads == 2
MaxRangeFeed == 2

(* Program constants *)

TEAM_SIZE == 5
TRADE_WINDOW_MS == 3000
DEATH_DIFF_MIN == -1

-----------------------------------------------------------------------------
(* Optional values (Python's None) *)

None == <<>>
Some(x) == <<x>>
Get(o) == o[1]

(* Worker threads: a thread that was not started yet, with the locals of    *)
(* loop() as they are when it starts.  printed is the line the iteration   *)
(* made last printed, if any.                                               *)

Threads == 1..MaxThreads

NoThread ==
    [pc |-> "unborn", prev_frame |-> None, cur_frame |-> None,
     death_frame_state |-> None, anal_res |-> None, exc |-> None,
     printed |-> None]

(* Names as ASCII codes *)

PLAYER_NAME == <<109, 97, 108, 100, 105, 110, 103>>
Malding == <<77, 97, 108, 100, 105, 110, 103>>
Iso == <<73, 115, 111>>
Raze == <<82, 97, 122, 101>>

Lower(s) == [i \in DOMAIN s |-> IF s[i] \in 65..90 THEN s[i] + 32 ELSE s[i]]

\* Targets passed to team_diff_at_death, and victims the kill feed can name:
\* "Malding" differs from PLAYER_NAME only in case, "Iso" is another player.
Targets == {PLAYER_NAME, Malding}
Victims == {Malding, Iso}

-----------------------------------------------------------------------------
(* Frames as read by the HUD reader *)

KillFeedLine == [killer : {Raze}, victim : Victims, was_team_death : BOOLEAN]

SeqsUpTo(S, n) == UNION {[1..k -> S] : k \in 0..n}

Feeds == SeqsUpTo(KillFeedLine, MaxFeed)

\* ocr_valid: the OCR results of the kill feed region fit OcrResult.
HudFrames(counts, feeds) ==
    [team1 : counts, team2 : counts, kill_feed : feeds, player_dead : BOOLEAN,
     ocr_valid : {TRUE}]

\* Frames whose OCR results do not validate: no feed is read from them.
InvalidOcrFrames(counts) ==
    [team1 : counts, team2 : counts, kill_feed : {<<>>}, player_dead : BOOLEAN,
     ocr_valid : {FALSE}]

\* At most MaxDead agents of a team are dead in the frames of a detection.
AliveCounts == {n \in 0..TEAM_SIZE : n >= TEAM_SIZE - MaxDead}

Frames == HudFrames(AliveCounts, Feeds) \cup InvalidOcrFrames(AliveCounts)

BareFrames == HudFrames(AliveCounts, {<<>>})

detect_agent_icons(frame) == <<frame.team1, frame.team2>>

Return(v) == [raised |-> FALSE, value |-> v]
Raise(e) == [raised |-> TRUE, value |-> e]

detect_kill_feed(frame) ==
    IF frame.ocr_valid
    THEN Return(frame.kill_feed)
    ELSE Raise("ValidationError")

is_player_dead(frame) == frame.player_dead

-----------------------------------------------------------------------------
(* game_analyzer.py *)

FrameState(frame, team_diff, t) ==
    [frame |-> frame,
     team_diff |-> IF team_diff = None
                   THEN LET icons == detect_agent_icons(frame)
                        IN  Some(icons[1] - icons[2])
                   ELSE team_diff,
     timestamp_ms |-> t]

RECURSIVE ReplayFeed(_, _, _)
ReplayFeed(kill_feed, team_diff_at_event, target) ==
    IF kill_feed = <<>>
    THEN team_diff_at_event
    ELSE LET feed_event == Head(kill_feed)
             next_diff == IF feed_event.was_team_death
                          THEN team_diff_at_event - 1
                          ELSE team_diff_at_event + 1
         IN  IF Lower(feed_event.victim) = Lower(target)
             THEN next_diff
             ELSE ReplayFeed(Tail(kill_feed), next_diff, target)

IconDiff(frame) == detect_agent_icons(frame)[1] - detect_agent_icons(frame)[2]

Reverse(q) == [i \in 1..Len(q) |-> q[Len(q) + 1 - i]]

\* Mutant: the fast path is missing, the feed is always replayed.
team_diff_at_death_NoFastPath(target, prev, cur) ==
    IF detect_kill_feed(cur).raised
    THEN detect_kill_feed(cur)
    ELSE Return(ReplayFeed(detect_kill_feed(cur).value, IconDiff(prev), target))

\* Mutant: the feed is replayed newest entry first.
team_diff_at_death_NewestFirst(target, prev, cur) ==
    IF IconDiff(cur) + 1 = IconDiff(prev)
    THEN Return(IconDiff(cur))
    ELSE IF detect_kill_feed(cur).raised
         THEN detect_kill_feed(cur)
         ELSE Return(ReplayFeed(Reverse(detect_kill_feed(cur).value),
                                IconDiff(prev), target))

\* Mutant: without a matching entry the differential before the feed is returned.
team_diff_at_death_NoFallback(target, prev, cur) ==
    IF IconDiff(cur) + 1 = IconDiff(prev)
    THEN Return(IconDiff(cur))
    ELSE IF detect_kill_feed(cur).raised
         THEN detect_kill_feed(cur)
         ELSE IF \E i \in DOMAIN detect_kill_feed(cur).value :
                     Lower(detect_kill_feed(cur).value[i].victim) = Lower(target)
              THEN Return(ReplayFeed(detect_kill_feed(cur).value,
                                     IconDiff(prev), target))
              ELSE Return(IconDiff(prev))

team_diff_at_death(target, prev, cur) ==
    LET prev_icons == detect_agent_icons(prev)
        prev_team_diff == prev_icons[1] - prev_icons[2]
        cur_icons == detect_agent_icons(cur)
        curr_team_diff == cur_icons[1] - cur_icons[2]
    IN  IF curr_team_diff + 1 = prev_team_diff
        THEN Return(curr_team_diff)
        ELSE LET kill_feed == detect_kill_feed(cur)
             IN  IF kill_feed.raised
                 THEN kill_feed
                 ELSE Return(ReplayFeed(kill_feed.value, prev_team_diff, target))

\* Mutant: the player-is-dead signal is not consulted.
check_for_death_frame_IgnoreDead(prev, frame, t) ==
    LET true_death == team_diff_at_death(PLAYER_NAME, prev, frame)
    IN  IF true_death.raised
        THEN true_death
        ELSE IF true_death.value >= DEATH_DIFF_MIN
             THEN Return(Some(FrameState(frame, Some(true_death.value), t)))
             ELSE Return(None)

\* Mutant: the threshold is strict.
check_for_death_frame_Strict(prev, frame, t) ==
    LET true_death == team_diff_at_death(PLAYER_NAME, prev, frame)
    IN  IF true_death.raised
        THEN true_death
        ELSE IF is_player_dead(frame) /\ true_death.value > DEATH_DIFF_MIN
             THEN Return(Some(FrameState(frame, Some(true_death.value), t)))
             ELSE Return(None)

check_for_death_frame(prev, frame, t) ==
    LET true_team_death_ == team_diff_at_death(PLAYER_NAME, prev, frame)
    IN  IF true_team_death_.raised
        THEN true_team_death_
        ELSE IF is_player_dead(frame) /\ true_team_death_.value >= DEATH_DIFF_MIN
             THEN Return(Some(FrameState(frame, Some(true_team_death_.value), t)))
             ELSE Return(None)

Truthy(team_diff) == team_diff /= None /\ Get(team_diff) /= 0

check_overheat(death_state, cur_state) ==
    IF ~(Truthy(cur_state.team_diff) /\ Truthy(death_state.team_diff))
    THEN Raise("ValueError")
    ELSE LET death_traded == Get(cur_state.team_diff) > Get(death_state.team_diff)
             trade_window_expired ==
                 cur_state.timestamp_ms - death_state.timestamp_ms > TRADE_WINDOW_MS
         IN  IF trade_window_expired
             THEN Return("OVERHEAT")
             ELSE IF death_traded THEN Return("SAFE_RESET")
                  ELSE Return("SAFE_CONTINUE")

-----------------------------------------------------------------------------
(* Operations.  Each action applies one function of game_analyzer.py to      *)
(* inputs drawn from the bounded sets above and records what it returned.    *)

Init ==
    /\ op = "init"
    /\ now = 0
    /\ prev_frame = None
    /\ cur_frame = None
    /\ target_player = None
    /\ true_team_death = None
    /\ death_frame_state = None
    /\ first_frame_state = None
    /\ cur_frame_state = None
    /\ anal_res = None
    /\ error = None
    /\ running = FALSE
    /\ player_name = <<>>
    /\ main_pc = "input"
    /\ thread = [w \in Threads |-> NoThread]

(* The pair of consecutive frames the functions are applied to: the earlier  *)
(* one, read before the death (its feed and death signal are never read),    *)
(* and the current one.  A behaviour draws one pair.                          *)
PrevFrames == {f \in BareFrames : ~f.player_dead}

Capture ==
    /\ op = "init"
    /\ \E p \in PrevFrames, c \in Frames :
           /\ prev_frame' = Some(p)
           /\ cur_frame' = Some(c)
    /\ op' = "capture"
    /\ UNCHANGED <<now, target_player, true_team_death, death_frame_state,
                   first_frame_state, cur_frame_state, anal_res, error>>
    /\ UNCHANGED loopvars

(* What a call returned, if it returned, and what it raised, if it raised *)
Returned(outcome) == IF outcome.raised THEN None ELSE Some(outcome.value)
Raised(outcome) == IF outcome.raised THEN Some(outcome.value) ELSE None

(* The record a detection leaves the caller with: none when it raised *)
Record(outcome) == IF outcome.raised THEN None ELSE outcome.value

(* team_diff_at_death(target, prev_frame, cur_frame) *)
Reconstruct(target) ==
    /\ cur_frame /= None
    /\ op' = "team_diff_at_death"
    /\ target_player' = Some(target)
    /\ LET outcome == team_diff_at_death(target, Get(prev_frame), Get(cur_frame))
       IN  /\ true_team_death' = Returned(outcome)
           /\ error' = Raised(outcome)
    /\ death_frame_state' = None
    /\ first_frame_state' = None
    /\ UNCHANGED <<now, prev_frame, cur_frame, cur_frame_state, anal_res>>
    /\ UNCHANGED loopvars

(* check_for_death_frame(prev_frame, cur_frame), called at clock reading now *)
Detect ==
    /\ cur_frame /= None
    /\ op' = "check_for_death_frame"
    /\ target_player' = Some(PLAYER_NAME)
    /\ true_team_death' =
           Returned(team_diff_at_death(PLAYER_NAME, Get(prev_frame), Get(cur_frame)))
    /\ LET outcome == check_for_death_frame(Get(prev_frame), Get(cur_frame), now)
       IN  /\ death_frame_state' = Record(outcome)
           /\ error' = Raised(outcome)
    /\ first_frame_state' = None
    /\ cur_frame_state' = None
    /\ anal_res' = None
    /\ UNCHANGED <<now, prev_frame, cur_frame>>
    /\ UNCHANGED loopvars

NextDeath ==
    \/ Capture
    \/ \E target \in Targets : Reconstruct(target)
    \/ Detect

SpecDeath == Init /\ [][NextDeath]_vars

-----------------------------------------------------------------------------
(* Clock, repeated detection and classification of later frames *)

Times == {ms + 1000 * sec : ms \in 0..MaxMs, sec \in 0..MaxSec}

TickMs == {1, 1000}

Tick ==
    /\ \E dt \in TickMs :
           /\ now + dt \in Times
           /\ now' = now + dt
    /\ UNCHANGED <<op, prev_frame, cur_frame, target_player, true_team_death,
                   death_frame_state, first_frame_state, cur_frame_state, anal_res,
                   error>>
    /\ UNCHANGED loopvars

(* A pair of frames whose kill feed is empty *)
CaptureBare ==
    /\ op = "init"
    /\ \E p \in PrevFrames, c \in BareFrames :
           /\ prev_frame' = Some(p)
           /\ cur_frame' = Some(c)
    /\ op' = "capture"
    /\ UNCHANGED <<now, target_player, true_team_death, death_frame_state,
                   first_frame_state, cur_frame_state, anal_res, error>>
    /\ UNCHANGED loopvars

(* check_for_death_frame called a second time with the same pair of frames *)
DetectAgain ==
    /\ op = "check_for_death_frame"
    /\ op' = "check_for_death_frame_again"
    /\ first_frame_state' = death_frame_state
    /\ LET outcome == check_for_death_frame(Get(prev_frame), Get(cur_frame), now)
       IN  /\ death_frame_state' = Record(outcome)
           /\ error' = Raised(outcome)
    /\ UNCHANGED <<now, prev_frame, cur_frame, target_player, true_team_death,
                   cur_frame_state, anal_res>>
    /\ UNCHANGED loopvars

(* check_overheat(death_frame_state, FrameState(frame)) for a later frame    *)
(* (the player is still dead); its FrameState is built at clock reading now, *)
(* its team_diff read from the frame's agent icons.                          *)
Classify ==
    /\ death_frame_state /= None
    /\ \E f \in BareFrames :
           /\ f.player_dead
           /\ cur_frame_state' = Some(FrameState(f, None, now))
           /\ anal_res' = Some(check_overheat(Get(death_frame_state),
                                              FrameState(f, None, now)))
    /\ op' = "check_overheat"
    /\ UNCHANGED <<now, prev_frame, cur_frame, target_player, true_team_death,
                   death_frame_state, first_frame_state, error>>
    /\ UNCHANGED loopvars

NextIdem ==
    \/ CaptureBare
    \/ Tick
    \/ Detect
    \/ DetectAgain

SpecIdem == Init /\ [][NextIdem]_vars

NextOverheat ==
    \/ CaptureBare
    \/ Tick
    \/ Detect
    \/ Classify

SpecOverheat == Init /\ [][NextOverheat]_vars

DiffRange == (0 - TEAM_SIZE)..TEAM_SIZE

-----------------------------------------------------------------------------
(* Properties of check_overheat, checked under SpecOverheat *)

Rec == Get(death_frame_state)
Cur == Get(cur_frame_state)
Res == Get(anal_res)
RecDiff == Get(Rec.team_diff)
CurDiff == Get(Cur.team_diff)
Elapsed == Cur.timestamp_ms - Rec.timestamp_ms
Classified == op = "check_overheat"

\* C1: whenever check_overheat returns a classification for a frame state
\* whose differential is strictly greater than the record's (trade achieved),
\* it returns SAFE_RESET, also when more than 3000 ms have elapsed since the
\* latch; and OVERHEAT is returned only when more than 3000 ms have elapsed
\* and the current differential is not greater than the record's.  (The error
\* outcome is the subject of C2 and is left aside here.)
C1_TradeIsSafeReset ==
    Classified =>
        /\ (CurDiff > RecDiff /\ ~Res.raised) => Res = Return("SAFE_RESET")
        /\ Res = Return("OVERHEAT") =>
               (Elapsed > TRADE_WINDOW_MS /\ ~(CurDiff > RecDiff))

\* C2: check_overheat returns a classification and does not raise for every
\* death record and current frame state whose differentials are integers in
\* [-5, 5], 0 included; record diff -1, current diff 0, elapsed 1000 ms gives
\* SAFE_RESET.
C2_NoErrorOnIntegerDiffs ==
    Classified =>
        /\ (RecDiff \in DiffRange /\ CurDiff \in DiffRange) => ~Res.raised
        /\ (RecDiff = -1 /\ CurDiff = 0 /\ Elapsed = 1000) =>
               Res = Return("SAFE_RESET")

\* C3: when no trade occurs (current differential not greater than the
\* record's), check_overheat returns SAFE_CONTINUE for every elapsed time
\* <= 3000 ms and OVERHEAT for every elapsed time > 3000 ms.
C3_NoTradeDecidedByElapsed ==
    (Classified /\ CurDiff <= RecDiff) =>
        /\ Elapsed <= TRADE_WINDOW_MS => Res = Return("SAFE_CONTINUE")
        /\ Elapsed > TRADE_WINDOW_MS => Res = Return("OVERHEAT")

-----------------------------------------------------------------------------
(* Properties of team_diff_at_death and check_for_death_frame, checked under *)
(* SpecDeath                                                                 *)

Prev == Get(prev_frame)
Frm == Get(cur_frame)
Feed == Frm.kill_feed
Target == Get(target_player)
Reconstructed == true_team_death /= None
Detected == op = "check_for_death_frame"
FastPath == IconDiff(Frm) = IconDiff(Prev) - 1

\* Sum of the deltas of the first k feed entries: +1 for each opposing death,
\* -1 for each own-team death.
SumDeltas(feed, k) ==
    Cardinality({i \in 1..k : ~feed[i].was_team_death})
    - Cardinality({i \in 1..k : feed[i].was_team_death})

\* Indices of the entries naming the target as victim, case-insensitively.
NamedAt(feed, target) ==
    {i \in 1..Len(feed) : Lower(feed[i].victim) = Lower(target)}

TheIndex(S) == CHOOSE k \in S : TRUE

\* The feed lists exactly the kills between the two frames.
FeedExact ==
    /\ Frm.team1 = Prev.team1 - Cardinality({i \in 1..Len(Feed) : Feed[i].was_team_death})
    /\ Frm.team2 = Prev.team2 - Cardinality({i \in 1..Len(Feed) : ~Feed[i].was_team_death})

\* C4: when the feed lists, oldest first, exactly the kills between the two
\* frames and names the monitored player as (own-team) victim exactly once,
\* team_diff_at_death returns the differential right after that death.
C4_TrueDiffAtDeath ==
    (/\ Reconstructed
     /\ FeedExact
     /\ Cardinality(NamedAt(Feed, Target)) = 1
     /\ Feed[TheIndex(NamedAt(Feed, Target))].was_team_death) =>
        Get(true_team_death)
            = IconDiff(Prev) + SumDeltas(Feed, TheIndex(NamedAt(Feed, Target)))

\* C5: for every pair of frames with diffAfter = diffBefore - 1,
\* team_diff_at_death returns diffAfter, whatever the kill feed holds (also
\* when its OCR results cannot be read into a feed).
C5_FastPathIgnoresFeed ==
    (op \in {"team_diff_at_death", "check_for_death_frame"} /\ FastPath) =>
        /\ true_team_death = Some(IconDiff(Frm))
        /\ \A f \in Feeds :
               team_diff_at_death(Target, Prev,
                                  [Frm EXCEPT !.kill_feed = f, !.ocr_valid = TRUE])
                   = Return(IconDiff(Frm))
        /\ team_diff_at_death(Target, Prev,
                              [Frm EXCEPT !.kill_feed = <<>>, !.ocr_valid = FALSE])
               = Return(IconDiff(Frm))

C5_Witness ==
    /\ Reconstructed
    /\ FastPath
    /\ Len(Feed) = 2
    /\ NamedAt(Feed, Target) = {2}
    /\ ~Feed[1].was_team_death
    /\ Get(true_team_death) = IconDiff(Frm)

\* C6: off the fast path, with the target named as victim (case-insensitively)
\* exactly once, at index k, team_diff_at_death returns diffBefore plus the
\* deltas of entries 1..k in feed order (oldest first); the entries after
\* index k do not change the result.
C6_ReplayUpToVictim ==
    (Reconstructed /\ ~FastPath /\ Cardinality(NamedAt(Feed, Target)) = 1) =>
        LET k == TheIndex(NamedAt(Feed, Target))
        IN  /\ Get(true_team_death) = IconDiff(Prev) + SumDeltas(Feed, k)
            /\ team_diff_at_death(Target, Prev,
                                  [Frm EXCEPT !.kill_feed = SubSeq(Feed, 1, k)])
                   = Return(Get(true_team_death))

C6_Witness ==
    /\ Reconstructed
    /\ ~FastPath
    /\ Len(Feed) = 3
    /\ NamedAt(Feed, Target) = {2}
    /\ Feed[2].victim /= Target
    /\ Feed[1].was_team_death
    /\ ~Feed[3].was_team_death
    /\ Get(true_team_death) = IconDiff(Prev) + SumDeltas(Feed, 2)

C8_NoRecordUnlessDead ==
    (Detected /\ ~is_player_dead(Frm)) => death_frame_state = None

C8_Witness ==
    /\ Detected
    /\ ~is_player_dead(Frm)
    /\ Get(true_team_death) >= DEATH_DIFF_MIN
    /\ death_frame_state = None

\* C9: whenever team_diff_at_death reconstructs a differential for the pair,
\* check_for_death_frame returns a record if and only if the player-is-dead
\* signal is true and the reconstructed differential is >= -1; the record's
\* team_diff is the value team_diff_at_death returns for the pair; 5v5 then
\* 4v5 with the player dead yields a record with differential -1 (fast path,
\* the feed is not read); no record is returned when the differential is
\* <= -2.
C9_RecordIffDeadAndViable ==
    (Detected /\ Reconstructed) =>
        LET diff == team_diff_at_death(PLAYER_NAME, Prev, Frm).value
        IN  /\ death_frame_state /= None <=> (is_player_dead(Frm) /\ diff >= -1)
            /\ death_frame_state /= None =>
                   Get(death_frame_state).team_diff = Some(diff)
            /\ diff <= -2 => death_frame_state = None
            /\ (/\ Prev.team1 = 5 /\ Prev.team2 = 5
                /\ Frm.team1 = 4 /\ Frm.team2 = 5
                /\ is_player_dead(Frm)) =>
                   /\ death_frame_state /= None
                   /\ Get(death_frame_state).team_diff = Some(-1)

C9_Witness ==
    /\ Detected
    /\ Prev.team1 = 5 /\ Prev.team2 = 5
    /\ Frm.team1 = 4 /\ Frm.team2 = 5
    /\ is_player_dead(Frm)
    /\ death_frame_state /= None
    /\ Get(death_frame_state).team_diff = Some(-1)

-----------------------------------------------------------------------------
(* Repeated detection, checked under SpecIdem *)

\* C10: calling check_for_death_frame twice with the same pair of frames
\* returns equal records (same differential, same latch timestamp), also when
\* the clock advances between the two calls.
C10_SamePairSameRecord ==
    op = "check_for_death_frame_again" => death_frame_state = first_frame_state

-----------------------------------------------------------------------------
(* main.py: the control surface (main, toggle_loop) and the worker (loop)    *)

funcvars == <<op, prev_frame, cur_frame, target_player, true_team_death,
              death_frame_state, first_frame_state, cur_frame_state, anal_res,
              error>>

(* Frames the screen capture delivers to the worker in one round: 5v5 with   *)
(* the player alive, then 4 against 3 to 5 with the player dead; the round   *)
(* may be over (POST_ROUND) in a frame taken after the death.  The kill feed *)
(* has scrolled away.                                                        *)
RoundStates == {"MID_ROUND", "POST_ROUND"}

detect_round_state(frame) == frame.round_state

LoopFrames ==
    {f \in [team1 : {TEAM_SIZE - 1, TEAM_SIZE},
            team2 : (TEAM_SIZE - 2)..TEAM_SIZE,
            kill_feed : {<<>>},
            player_dead : BOOLEAN,
            ocr_valid : {TRUE},
            round_state : RoundStates] :
        /\ f.player_dead <=> f.team1 = TEAM_SIZE - 1
        /\ ~f.player_dead => (f.team2 = TEAM_SIZE /\ f.round_state = "MID_ROUND")}

capture_screen == LoopFrames

\* Names typed at the prompt, after strip(); the empty one ends the program.
EnteredNames == {<<>>, Malding, Iso}

(* A call that passes its arguments by keyword: Python raises TypeError when *)
(* a keyword is given that the callee does not declare.                      *)
CallKw(params, given, outcome) ==
    IF given \subseteq params THEN outcome ELSE Raise("TypeError")

CheckForDeathFrameParams == {"prev_frame", "frame"}

\* main.py 26-30: the detection call as the loop makes it.
loop_detection_call(prev, frame, t) ==
    CallKw(CheckForDeathFrameParams, {"prev_frame", "frame", "player_name"},
           check_for_death_frame(prev, frame, t))

\* main.py 34-42: what the loop does with the value check_overheat returned.
on_classified(t, res) ==
    IF res = "OVERHEAT"
    THEN [t EXCEPT !.anal_res = Some(res), !.printed = Some("OVERHEAT")]
    ELSE IF res = "SAFE_RESET"
         THEN [t EXCEPT !.anal_res = Some(res), !.death_frame_state = None]
         ELSE [t EXCEPT !.anal_res = Some(res)]

\* Mutant: the captured frame is never stored as the previous frame.
LoopBody_NoPrevUpdate(t, f, t_now, det) ==
    LET got == [t EXCEPT !.cur_frame = Some(f), !.printed = None]
        done(s) == [s EXCEPT !.pc = "while"]
        crash(e) == [got EXCEPT !.pc = "raised", !.exc = Some(e)]
    IN  IF t.prev_frame = None
        THEN done(got)
        ELSE IF t.death_frame_state = None
             THEN IF det.raised
                  THEN crash(det.value)
                  ELSE done([got EXCEPT
                                 !.death_frame_state = det.value,
                                 !.printed = IF det.value /= None
                                             THEN Some("DEATH FRAME FOUND")
                                             ELSE None])
             ELSE LET res == check_overheat(Get(t.death_frame_state),
                                            FrameState(f, None, t_now))
                  IN  IF res.raised
                      THEN crash(res.value)
                      ELSE done(on_classified(got, res.value))

(* main.py 21-44: one iteration of the worker with locals t, for the frame f *)
(* captured at clock reading t_now; det is the outcome of the detection call *)
(* on (t.prev_frame, f), looked at only in the branch that makes the call.   *)
(* An exception leaves the loop and ends the thread: nothing catches it.     *)
LoopBody(t, f, t_now, det) ==
    LET got == [t EXCEPT !.cur_frame = Some(f), !.printed = None]
        done(s) == [s EXCEPT !.prev_frame = Some(f), !.pc = "while"]
        crash(e) == [got EXCEPT !.pc = "raised", !.exc = Some(e)]
    IN  IF t.prev_frame = None
        THEN done(got)
        ELSE IF t.death_frame_state = None
             THEN IF det.raised
                  THEN crash(det.value)
                  ELSE done([got EXCEPT
                                 !.death_frame_state = det.value,
                                 !.printed = IF det.value /= None
                                             THEN Some("DEATH FRAME FOUND")
                                             ELSE None])
             ELSE LET res == check_overheat(Get(t.death_frame_state),
                                            FrameState(f, None, t_now))
                  IN  IF res.raised
                      THEN crash(res.value)
                      ELSE done(on_classified(got, res.value))

(* main.py 62-66: the name prompt *)
EnterName(name) ==
    /\ main_pc = "input"
    /\ player_name' = name
    /\ main_pc' = IF name = <<>> THEN "exited" ELSE "command"
    /\ UNCHANGED <<running, thread, now, funcvars>>

(* main.py 47-55 *)
toggle_loop ==
    IF running
    THEN /\ running' = FALSE
         /\ UNCHANGED thread
    ELSE /\ running' = TRUE
         /\ \E w \in Threads :
                /\ thread[w].pc = "unborn"
                /\ \A v \in 1..(w - 1) : thread[v].pc /= "unborn"
                /\ thread' = [thread EXCEPT ![w] = [NoThread EXCEPT !.pc = "while"]]

(* main.py 73-77: command "start" while not running *)
Start ==
    /\ main_pc = "command"
    /\ ~running
    /\ toggle_loop
    /\ UNCHANGED <<player_name, main_pc, now, funcvars>>

(* main.py 78-82: command "stop" while running *)
Stop ==
    /\ main_pc = "command"
    /\ running
    /\ toggle_loop
    /\ UNCHANGED <<player_name, main_pc, now, funcvars>>

(* main.py 83-85, 92-94: command "quit"; the daemon threads end with main *)
Quit ==
    /\ main_pc = "command"
    /\ main_pc' = "exited"
    /\ running' = FALSE
    /\ UNCHANGED <<player_name, thread, now, funcvars>>

\* Mutant: the worker goes on whatever the flag says.
LoopTest_IgnoreFlag(w) ==
    /\ main_pc /= "exited"
    /\ thread[w].pc = "while"
    /\ thread' = [thread EXCEPT ![w].pc = "body"]
    /\ UNCHANGED <<running, player_name, main_pc, now, funcvars>>

(* main.py 20: the worker tests the flag *)
LoopTest(w) ==
    /\ main_pc /= "exited"
    /\ thread[w].pc = "while"
    /\ thread' = [thread EXCEPT ![w].pc = IF running THEN "body" ELSE "exited"]
    /\ UNCHANGED <<running, player_name, main_pc, now, funcvars>>

(* main.py 21-44: one iteration of the worker *)
Iterate(w) ==
    /\ main_pc /= "exited"
    /\ thread[w].pc = "body"
    /\ \E f \in capture_screen :
           thread' = [thread EXCEPT
                          ![w] = LoopBody(thread[w], f, now,
                                          loop_detection_call(
                                              Get(thread[w].prev_frame), f, now))]
    /\ UNCHANGED <<running, player_name, main_pc, now, funcvars>>

Next ==
    \/ \E name \in EnteredNames : EnterName(name)
    \/ Start
    \/ Stop
    \/ Quit
    \/ \E w \in Threads : LoopTest(w)
    \/ \E w \in Threads : Iterate(w)

Spec == Init /\ [][Next]_vars

-----------------------------------------------------------------------------
(* Properties of the control surface and the worker threads, checked under   *)
(* Spec                                                                      *)

\* Worker w completes or leaves an iteration in this step.
PollStep(w) == thread[w].pc = "body" /\ thread'[w].pc /= "body"

\* No worker ever holds a death record or a classification: the detection
\* call of a worker's second iteration raises, and nothing else assigns a
\* record.  The classification branch of the loop (main.py 33-42) is never
\* entered.
WorkerNeverHoldsRecord ==
    \A w \in Threads :
        /\ thread[w].death_frame_state = None
        /\ thread[w].anal_res = None
        /\ thread[w].printed = None

\* Workers that passed the loop test and are executing an iteration.
Polling == {w \in Threads : thread[w].pc = "body"}

\* C14: for every interleaving of start and stop commands with the workers'
\* steps, at most one worker is executing the loop; a stop followed by a
\* start, issued before the running worker has tested the flag again, does
\* not leave two workers polling.
C14_AtMostOneWorker ==
    Cardinality(Polling) <= 1

\* C15: an error raised inside an iteration does not end the worker: a worker
\* ends only by finding the running flag false at the loop test, and an
\* iteration that raised leaves the worker's record as it was, ready to poll
\* again.
C15_ErrorAbortsIterationOnly ==
    [][\A w \in Threads :
           PollStep(w) =>
               /\ thread'[w].pc = "while"
               /\ thread'[w].exc /= None =>
                      thread'[w].death_frame_state = thread[w].death_frame_state]_vars

\* C16: the detection call the loop makes with the entered player name
\* completes: it returns a record or none and raises nothing.
C16_DetectionCallCompletes ==
    \A w \in Threads : thread[w].exc /= Some("TypeError")

\* C18: a worker starts with no record; a poll made with no record latched
\* latches one if and only if it has a predecessor frame and
\* check_for_death_frame returns a record for (previous frame, current frame).
C18_LatchIffDetected ==
    [][\A w \in Threads :
           /\ (thread[w].pc = "unborn" /\ thread'[w].pc /= "unborn") =>
                  thread'[w].death_frame_state = None
           /\ (PollStep(w) /\ thread[w].death_frame_state = None) =>
                  IF thread[w].prev_frame = None
                  THEN thread'[w].death_frame_state = None
                  ELSE thread'[w].death_frame_state /= None
                           <=> Record(check_for_death_frame(
                                           Get(thread[w].prev_frame),
                                           Get(thread'[w].cur_frame),
                                           now)) /= None]_vars

-----------------------------------------------------------------------------
(* Stopping the worker, checked under SpecStop: the program of Spec with its *)
(* worker threads scheduled fairly.                                         *)

SpecStop ==
    /\ Init
    /\ [][Next]_vars
    /\ \A w \in Threads : WF_vars(LoopTest(w)) /\ WF_vars(Iterate(w))

\* Outcomes of one iteration of worker w, over the frames it can capture.
IterationOutcomes(w) ==
    {LoopBody(thread[w], f, now,
              loop_detection_call(Get(thread[w].prev_frame), f, now)) :
         f \in capture_screen}

\* C21: the stop signal is observed only at the loop test between polls: a
\* worker leaves the loop test into the body if the flag is true and ends if
\* it is false; an iteration that has started runs to its end whatever the
\* flag says; a worker that has ended does nothing more; and once the flag is
\* false a started worker terminates, unless monitoring is started again or
\* the program ends first.
C21_StopObservedBetweenPolls ==
    /\ [][\A w \in Threads :
              /\ (thread[w].pc = "while" /\ thread'[w] /= thread[w]) =>
                     thread'[w] = [thread[w] EXCEPT
                                       !.pc = IF running THEN "body" ELSE "exited"]
              /\ PollStep(w) =>
                     /\ thread'[w] \in IterationOutcomes(w)
                     /\ thread'[w].pc \in {"while", "raised"}
              /\ thread[w].pc \in {"exited", "raised"} =>
                     thread'[w] = thread[w]]_vars
    /\ \A w \in Threads :
           (~running /\ thread[w].pc \in {"while", "body"})
               ~> \/ thread[w].pc \in {"exited", "raised"}
                  \/ running
                  \/ main_pc = "exited"

\* A worker that completed its first iteration while the stop command was
\* given, and ended at the loop test that followed.
C21_Witness ==
    \E w \in Threads :
        /\ ~running
        /\ main_pc = "command"
        /\ thread[w].pc = "exited"
        /\ thread[w].prev_frame /= None
        /\ thread[w].exc = None

-----------------------------------------------------------------------------
(* Order of frames, checked under Spec *)

-----------------------------------------------------------------------------
(* Range of the reconstructed differential: frames with every alive count    *)
(* from 0 to TEAM_SIZE and a short kill feed, which may still show lines of  *)
(* kills made before the earlier frame.                                      *)

AllCounts == 0..TEAM_SIZE

RangeFrames ==
    HudFrames(AllCounts, SeqsUpTo(KillFeedLine, MaxRangeFeed))
        \cup InvalidOcrFrames(AllCounts)

RangePrevFrames == {f \in HudFrames(AllCounts, {<<>>}) : ~f.player_dead}

CaptureRange ==
    /\ op = "init"
    /\ \E p \in RangePrevFrames, c \in RangeFrames :
           /\ prev_frame' = Some(p)
           /\ cur_frame' = Some(c)
    /\ op' = "capture"
    /\ UNCHANGED <<now, target_player, true_team_death, death_frame_state,
                   first_frame_state, cur_frame_state, anal_res, error>>
    /\ UNCHANGED loopvars

NextRange ==
    \/ CaptureRange
    \/ \E target \in Targets : Reconstruct(target)
    \/ Detect

SpecRange == Init /\ [][NextRange]_vars

\* C24: for frames whose alive counts are in 0..5 and any kill feed, the value
\* team_diff_at_death returns is a differential in [-5, 5], and every record
\* check_for_death_frame returns has a differential in [-1, 5].
C24_DiffInRange ==
    /\ Reconstructed => Get(true_team_death) \in DiffRange
    /\ (Detected /\ death_frame_state /= None) =>
           Get(Get(death_frame_state).team_diff) \in DEATH_DIFF_MIN..TEAM_SIZE

-----------------------------------------------------------------------------
(* The running flag and the workers, checked under Spec *)

\* Workers that are alive: started and neither ended nor killed by an error.
Alive == {w \in Threads : thread[w].pc \in {"while", "body"}}

\* C25: in every reachable state of the control surface, whenever running is
\* true a worker thread is alive and polling, so that "start" is answered
\* "Already running" only while a worker really runs.
C25_RunningMeansWorkerAlive ==
    running => Alive /= {}

=============================================================================
